---- MODULE Spec2Model ----
(***************************************************************************)
(* CSP violation report collector (src/server.js): the raw-body            *)
(* middleware, the report extraction and ingestion handler, customer       *)
(* registration and the statistics handler, over a document store with     *)
(* two collections (customers, violations).                                *)
(*                                                                         *)
(* JSON values are tagged records; a request body on the wire is a string. *)
(* Every await of a store call is a suspension point, so a handler is one  *)
(* action per await: the action is the store call's outcome together with  *)
(* the synchronous code that runs up to the next await.                    *)
(*                                                                         *)
(* Left out: the two handlers that only read the store and answer          *)
(* (GET /api/customers/:uniqueId, GET /api/violations/:uniqueId), and the  *)
(* userAgent and ipAddress of a violation record.                          *)
(***************************************************************************)
EXTENDS Integers, Sequences, FiniteSets, TLC

(***************************************************************************)
(* JavaScript / JSON values                                                *)
(***************************************************************************)
Undefined == [t |-> "undefined"]
JNull     == [t |-> "null"]
JBool(b)  == [t |-> "bool", b |-> b]
JNum(n)   == [t |-> "num", n |-> n]
JStr(s)   == [t |-> "str", s |-> s]
JArr(a)   == [t |-> "arr", a |-> a]
JObj(f)   == [t |-> "obj", f |-> f]
EmptyObj  == JObj(<<>>)

\* the object {k: v}
Field(k, v) == [x \in {k} |-> v]

\* f extended with the key k (a value of Undefined means the key is absent)
With(f, k, v) ==
    IF v = Undefined THEN f
    ELSE [x \in (DOMAIN f) \cup {k} |-> IF x = k THEN v ELSE f[x]]

IsNullish(v) == v.t \in {"undefined", "null"}

\* ToBoolean
Truthy(v) ==
    CASE v.t \in {"undefined", "null"} -> FALSE
      [] v.t = "bool" -> v.b
      [] v.t = "num"  -> v.n # 0
      [] v.t = "str"  -> v.s # ""
      [] OTHER        -> TRUE

\* v[k] for a v that is neither null nor undefined (on those it is a TypeError,
\* which the callers test for first); the keys used are never array indices or
\* built-in properties, so every non-object yields undefined
Get(v, k) ==
    IF v.t = "obj" /\ k \in DOMAIN v.f THEN v.f[k] ELSE Undefined

\* v?.[k]
OptGet(v, k) == IF IsNullish(v) THEN Undefined ELSE Get(v, k)

\* a || b
OrElse(a, b) == IF Truthy(a) THEN a ELSE b

\* Object.keys(v).length for a v that is neither null nor undefined
KeyCount(v) ==
    CASE v.t = "obj" -> Cardinality(DOMAIN v.f)
      [] v.t = "arr" -> Len(v.a)
      [] v.t = "str" -> Len(v.s)
      [] OTHER       -> 0

(***************************************************************************)
(* JSON text                                                               *)
(***************************************************************************)
\* the order in which an object's keys are written (JSON.stringify writes them
\* in insertion order; the model fixes one order for all objects)
KeyOrder ==
    << "type", "body", "csp-report", "report", "content-security-policy-report",
       "document-uri", "violated-directive", "blocked-uri", "rawData",
       "original-report" >>

\* the string s with the characters that JSON escapes (quote, backslash) escaped
RECURSIVE Quote(_)
Quote(s) ==
    IF Len(s) = 0 THEN ""
    ELSE IF Len(s) = 1
         THEN IF s = "\"" THEN "\\\""
              ELSE IF s = "\\" THEN "\\\\"
              ELSE s
         ELSE LET h == Len(s) \div 2
              IN  Quote(SubSeq(s, 1, h)) \o Quote(SubSeq(s, h + 1, Len(s)))

RECURSIVE JSONstringify(_)
RECURSIVE StringifyItems(_, _)
RECURSIVE StringifyMembers(_, _)
StringifyItems(a, i) ==
    IF i > Len(a) THEN ""
    ELSE (IF i > 1 THEN "," ELSE "") \o JSONstringify(a[i]) \o StringifyItems(a, i + 1)

StringifyMembers(f, i) ==
    IF i > Len(KeyOrder) THEN ""
    ELSE LET k == KeyOrder[i]
             first == \A j \in 1..(i - 1) : KeyOrder[j] \notin DOMAIN f
         IN  (IF k \in DOMAIN f
              THEN (IF first THEN "" ELSE ",") \o "\"" \o Quote(k) \o "\":"
                   \o JSONstringify(f[k])
              ELSE "")
             \o StringifyMembers(f, i + 1)

JSONstringify(v) ==
    CASE v.t = "null" -> "null"
      [] v.t = "bool" -> IF v.b THEN "true" ELSE "false"
      [] v.t = "num"  -> ToString(v.n)
      [] v.t = "str"  -> "\"" \o Quote(v.s) \o "\""
      [] v.t = "arr"  -> "[" \o StringifyItems(v.a, 1) \o "]"
      [] v.t = "obj"  -> "{" \o StringifyMembers(v.f, 1) \o "}"

\* String.prototype.trim, for the white space the model sends (blanks)
RECURSIVE trim(_)
trim(s) ==
    IF Len(s) = 0 THEN s
    ELSE IF SubSeq(s, 1, 1) = " " THEN trim(SubSeq(s, 2, Len(s)))
    ELSE IF SubSeq(s, Len(s), Len(s)) = " " THEN trim(SubSeq(s, 1, Len(s) - 1))
    ELSE s

\* data.substring(0, n)
substring0(s, n) == SubSeq(s, 1, IF Len(s) < n THEN Len(s) ELSE n)

RECURSIVE Repeat(_, _)
Repeat(s, n) ==
    IF n = 0 THEN ""
    ELSE LET half == Repeat(s, n \div 2)
         IN  half \o half \o (IF n % 2 = 1 THEN s ELSE "")

(***************************************************************************)
(* Request inputs                                                          *)
(***************************************************************************)
\* longest array body sent
MaxArr == 2

\* characters of the raw body kept after a parse failure
RawKeep == 1000

DocumentUri       == "document-uri"
ViolatedDirective == "violated-directive"
BlockedUri        == "blocked-uri"

Report(du, vd, bu) ==
    JObj(With(With(With(<<>>, DocumentUri, du), ViolatedDirective, vd), BlockedUri, bu))

R1 == Report(JStr("https://a"), JStr("script-src"), JStr("https://cdn/a.js"))
R2 == Report(JStr("https://b"), Undefined, Undefined)
R3 == Report(JStr("https://c"), JStr("img-src"), JStr("https://cdn/c.png"))
R4 == Report(Undefined, JStr("style-src"), Undefined)
R5 == Report(JStr("https://a"), JStr("script-src"), JStr("https://cdn/c.png"))

Entry(type, body) == JObj(With(With(<<>>, "type", type), "body", body))

\* entries of a Reports API batch
ArrayEntries ==
    { JNull, JNum(7),
      Entry(JStr("csp-violation"), R1),
      Entry(JStr("csp-violation"), Undefined),
      Entry(JStr("csp-violation"), JNull),
      Entry(JStr("csp-violation"), JStr("text")),
      Entry(JStr("csp-violation"), JObj(Field("csp-report", R3))),
      Entry(JStr("csp-violation"), JObj(Field("csp-report", JStr("")))),
      Entry(Undefined, JObj(Field("csp-report", R4))),
      Entry(Undefined, JObj(Field("csp-report", JNull))),
      Entry(JStr("network-error"), R2) }

RECURSIVE SeqsUpTo(_, _)
SeqsUpTo(S, n) ==
    IF n = 0 THEN { <<>> }
    ELSE LET shorter == SeqsUpTo(S, n - 1)
         IN  shorter \cup { Append(q, e) : q \in shorter, e \in S }

ArrayBodies == { JArr(a) : a \in SeqsUpTo(ArrayEntries, MaxArr) }

PrimitiveBodies ==
    { JNull, JNum(0), JNum(42), JStr(""), JStr("report"), JBool(TRUE), JBool(FALSE) }

ObjectBodies ==
    { JObj(With(With(With(With(With(With(With(<<>>,
            "csp-report", a), "report", b), "content-security-policy-report", c),
            DocumentUri, d), ViolatedDirective, e), BlockedUri, g), "rawData", h)) :
        a \in { Undefined, JNull, JStr(""), JStr("text"), R1, R2 },
        b \in { Undefined, JNum(0), R3 },
        c \in { Undefined, R4 },
        d \in { Undefined, JStr(""), JStr("https://x") },
        e \in { Undefined, JStr("script-src") },
        g \in { Undefined },
        h \in { Undefined, JStr("raw") } }

\* the bodies of the extraction specification
ExtractBodies == ArrayBodies \cup PrimitiveBodies \cup ObjectBodies

\* the bodies of the concurrent specification
RaceBodies == { R3, JObj(Field("csp-report", R1)) }

\* raw bodies that are not JSON
Garbage ==
    { "{bad", "{\"csp-report\":{\"document-uri\"", "\\",
      Repeat("x", RawKeep - 1), Repeat("x", RawKeep), Repeat("x", RawKeep + 1),
      Repeat("{[", 2500) }

\* raw bodies that are empty or blank
Blank == { "", "  " }

\* every JSON text of the model with the value it denotes
WirePairs == { << JSONstringify(v), v >> : v \in ExtractBodies \cup RaceBodies }

JsonTexts == { p[1] : p \in WirePairs }

ParseTable == [ d \in JsonTexts |-> (CHOOSE p \in WirePairs : p[1] = d)[2] ]

\* JSON.parse: the value a JSON text denotes, or a SyntaxError
JSONparse(data) ==
    IF data \in JsonTexts
    THEN [ok |-> TRUE, value |-> ParseTable[data]]
    ELSE [ok |-> FALSE, value |-> Undefined]

ExtractData == JsonTexts \cup Garbage \cup Blank
RaceData    == { JSONstringify(v) : v \in RaceBodies }

ReportsJson == "application/reports+json"
CspReport   == "application/csp-report"
AppJson     == "application/json"
ContentTypes == { ReportsJson, CspReport, AppJson }

(***************************************************************************)
(* Middleware                                                              *)
(***************************************************************************)
\* the custom raw-body parser: req.body for the two report content types
RawBody(data) ==
    IF data # "" /\ trim(data) # ""
    THEN LET parsed == JSONparse(data)
         IN  IF parsed.ok
             THEN [body |-> parsed.value, parseFailed |-> FALSE]
             ELSE [body |-> JObj(Field("rawData", JStr(substring0(data, RawKeep) \o "..."))),
                   parseFailed |-> TRUE]
    ELSE [body |-> EmptyObj, parseFailed |-> FALSE]

\* express.json() in its default strict mode: an empty body is {}, a text that
\* is not a JSON object or array is rejected with 400 before any handler runs
ExpressJson(data) ==
    IF data = "" THEN [ok |-> TRUE, body |-> EmptyObj]
    ELSE LET parsed == JSONparse(data)
         IN  IF parsed.ok /\ parsed.value.t \in {"obj", "arr"}
             THEN [ok |-> TRUE, body |-> parsed.value]
             ELSE [ok |-> FALSE, body |-> Undefined]

\* the middleware chain in front of the routes
BodyParsers(contentType, data) ==
    IF contentType \in { ReportsJson, CspReport }
    THEN LET raw == RawBody(data)
         IN  [ok |-> TRUE, body |-> raw.body, parseFailed |-> raw.parseFailed]
    ELSE LET json == ExpressJson(data)
         IN  [ok |-> json.ok, body |-> json.body, parseFailed |-> FALSE]

(***************************************************************************)
(* Report extraction (the synchronous part of POST /csp-report/:uniqueId)  *)
(***************************************************************************)
Sentinel(documentUri) ==
    With(With(With(<<>>, DocumentUri, JStr(documentUri)),
                   ViolatedDirective, JStr("Unknown")),
                   BlockedUri, JStr("Unknown"))

NoCspReportsInArray == JObj(Sentinel("Unknown (No CSP reports in array)"))

EmptyOrInvalidFormat(body) ==
    JObj(With(Sentinel("Unknown (Empty or Invalid Format)"),
              "original-report", JStr(JSONstringify(body))))

ParsingError(rawData) ==
    JObj(With(Sentinel("Unknown (Parsing Error)"), "original-report", rawData))

\* the filter callback: report.type === 'csp-violation' || report.body?.['csp-report']
IsCspReport(report) ==
    \/ Get(report, "type") = JStr("csp-violation")
    \/ Truthy(OptGet(Get(report, "body"), "csp-report"))

\* firstReport.body?.['csp-report'] || firstReport.body || firstReport
FromFirstReport(firstReport) ==
    OrElse(OptGet(Get(firstReport, "body"), "csp-report"),
           OrElse(Get(firstReport, "body"), firstReport))

\* FromObject with the report wrapper tested before csp-report
FromObjectReportFirst(body) ==
    IF Truthy(Get(body, "report")) THEN Get(body, "report")
    ELSE IF Truthy(Get(body, "csp-report")) THEN Get(body, "csp-report")
    ELSE IF Truthy(Get(body, "content-security-policy-report"))
         THEN Get(body, "content-security-policy-report")
    ELSE IF \/ KeyCount(body) = 0
            \/ (~Truthy(Get(body, DocumentUri)) /\ ~Truthy(Get(body, ViolatedDirective)))
         THEN EmptyOrInvalidFormat(body)
    ELSE IF Truthy(Get(body, "rawData")) THEN ParsingError(Get(body, "rawData"))
    ELSE body

\* the if / else-if chain on a body that is not an array
FromObject(body) ==
    IF Truthy(Get(body, "csp-report")) THEN Get(body, "csp-report")
    ELSE IF Truthy(Get(body, "report")) THEN Get(body, "report")
    ELSE IF Truthy(Get(body, "content-security-policy-report"))
         THEN Get(body, "content-security-policy-report")
    ELSE IF \/ KeyCount(body) = 0
            \/ (~Truthy(Get(body, DocumentUri)) /\ ~Truthy(Get(body, ViolatedDirective)))
         THEN EmptyOrInvalidFormat(body)
    ELSE IF Truthy(Get(body, "rawData")) THEN ParsingError(Get(body, "rawData"))
    ELSE body

\* reportData for a request body, or the TypeError thrown on the way
ExtractReportData(body) ==
    IF body.t = "arr"
    THEN IF \E i \in 1..Len(body.a) : IsNullish(body.a[i])
         THEN [ok |-> FALSE, reportData |-> Undefined]
         ELSE LET cspReports == SelectSeq(body.a, IsCspReport)
              IN  IF Len(cspReports) > 0
                  THEN [ok |-> TRUE, reportData |-> FromFirstReport(cspReports[1])]
                  ELSE [ok |-> TRUE, reportData |-> NoCspReportsInArray]
    ELSE IF IsNullish(body)
         THEN [ok |-> FALSE, reportData |-> Undefined]
         ELSE [ok |-> TRUE, reportData |-> FromObject(body)]

\* the paths of violationSchema.reportData that the model's reports can carry
\* (all of type String)
SchemaPaths ==
    { DocumentUri, ViolatedDirective, BlockedUri, "source-file", "effective-directive" }

\* what new Violation({reportData}) keeps of reportData under the schema: the
\* declared paths of an object, nothing of any other value
CastReportData(reportData) ==
    IF reportData.t = "obj"
    THEN [k \in { x \in DOMAIN reportData.f :
                    x \in SchemaPaths /\ reportData.f[x].t = "str" }
            |-> reportData.f[k].s]
    ELSE <<>>

\* new Violation({customerId, reportData}) at time now (timestamp defaults to Date.now)
NewViolation(customerId, reportData, timestamp) ==
    [customerId |-> customerId,
     reportData |-> CastReportData(reportData),
     timestamp  |-> timestamp]

(***************************************************************************)
(* State                                                                   *)
(***************************************************************************)
VARIABLES
    customers,      \* the customers collection: the uniqueId of every customer
    violations,     \* the violations collection, in insertion order
    now,            \* the clock (Date.now), in ticks
    reports,        \* POST /csp-report/:uniqueId requests, by slot
    stats           \* the GET /api/stats/:uniqueId request

vars == << customers, violations, now, reports, stats >>

\* tenant identifiers (uuidv4 values and the :uniqueId of requests)
Ids == { "t1", "t2" }

\* report requests in flight at once in the concurrent specification
MaxInFlight == 1

Slots == 1..MaxInFlight

IdleReport ==
    [pc |-> "idle", uniqueId |-> "", contentType |-> "", data |-> "",
     parseFailed |-> FALSE, body |-> Undefined, reportData |-> Undefined,
     violation |-> <<>>, status |-> 0, error |-> "none"]

IdleStats ==
    [pc |-> "idle", uniqueId |-> "", days |-> 0, startDate |-> 0, endDate |-> 0,
     directiveCounts |-> <<>>, uriCounts |-> <<>>, dailyCounts |-> <<>>,
     totalViolations |-> 0, status |-> 0, error |-> "none"]

Init ==
    /\ customers = {}
    /\ violations = <<>>
    /\ now = 0
    /\ reports = [i \in Slots |-> IdleReport]
    /\ stats = IdleStats

(***************************************************************************)
(* POST /api/customers                                                     *)
(***************************************************************************)
\* the whole handler: name is the posted name ("" when missing, answered 400),
\* uniqueId the value uuidv4() returned, ok whether the store accepted the write;
\* the unique index rejects a uniqueId that is already there (both answered
\* 500).  Only the 201 case changes the store; the response is not kept.
CreateCustomer(name, uniqueId, ok) ==
    /\ customers' = IF name = "" \/ ~ok \/ uniqueId \in customers
                    THEN customers
                    ELSE customers \cup { uniqueId }
    /\ UNCHANGED << violations, now, reports, stats >>

(***************************************************************************)
(* POST /csp-report/:uniqueId                                              *)
(***************************************************************************)
Respond(r, status, error) == [r EXCEPT !.pc = "done", !.status = status, !.error = error]

\* the request arrives: the body parsers run and the handler calls
\* Customer.findOne (a body express.json() rejects is answered 400)
ReceiveReport(i, uniqueId, contentType, data) ==
    /\ reports[i].pc \in { "idle", "done" }
    /\ LET parsers == BodyParsers(contentType, data)
           req == [IdleReport EXCEPT !.uniqueId = uniqueId,
                                     !.contentType = contentType,
                                     !.data = data,
                                     !.parseFailed = parsers.parseFailed,
                                     !.body = parsers.body]
       IN  reports' = [reports EXCEPT ![i] =
                          IF parsers.ok
                          THEN [req EXCEPT !.pc = "findOne"]
                          ELSE Respond(req, 400, "SyntaxError")]
    /\ UNCHANGED << customers, violations, now, stats >>

\* FindCustomer without the lookup: every uniqueId passes for a customer
FindCustomerUnchecked(uniqueId) == uniqueId

\* the customer looked up for a uniqueId (null when there is none)
FindCustomer(uniqueId) == IF uniqueId \in customers THEN uniqueId ELSE ""

\* Customer.findOne settles; the handler runs up to violation.save()
ReportFindOne(i, ok) ==
    /\ reports[i].pc = "findOne"
    /\ LET r == reports[i]
           customer == FindCustomer(r.uniqueId)
           extracted == ExtractReportData(r.body)
       IN  reports' = [reports EXCEPT ![i] =
              IF ~ok THEN Respond(r, 500, "StoreError")
              ELSE IF customer = "" THEN Respond(r, 404, "none")
              ELSE IF ~extracted.ok THEN Respond(r, 500, "TypeError")
              ELSE [r EXCEPT !.pc = "save",
                             !.reportData = extracted.reportData,
                             !.violation = NewViolation(customer, extracted.reportData, now)]]
    /\ UNCHANGED << customers, violations, now, stats >>

\* SaveViolation with the record written although the save is reported failed
SaveViolationAlways(collection, violation, ok) == Append(collection, violation)

\* the violations collection after violation.save()
SaveViolation(collection, violation, ok) ==
    IF ok THEN Append(collection, violation) ELSE collection

\* violation.save() settles and the handler answers
ReportSave(i, ok) ==
    /\ reports[i].pc = "save"
    /\ violations' = SaveViolation(violations, reports[i].violation, ok)
    /\ reports' = [reports EXCEPT ![i] =
          IF ok THEN Respond(@, 204, "none") ELSE Respond(@, 500, "StoreError")]
    /\ UNCHANGED << customers, now, stats >>

(***************************************************************************)
(* Extraction specification: one report request against a store in which   *)
(* any customers may have been registered                                  *)
(***************************************************************************)
NextExtract ==
    \/ \E name \in { "", "Shop" }, uniqueId \in Ids, ok \in BOOLEAN :
          CreateCustomer(name, uniqueId, ok)
    \/ /\ reports[1].pc = "idle"
       /\ \E uniqueId \in Ids, contentType \in ContentTypes, data \in ExtractData :
             ReceiveReport(1, uniqueId, contentType, data)
    \/ \E ok \in BOOLEAN : ReportFindOne(1, ok)
    \/ \E ok \in BOOLEAN : ReportSave(1, ok)

SpecExtract == Init /\ [][NextExtract]_vars

(***************************************************************************)
(* GET /api/stats/:uniqueId                                                *)
(***************************************************************************)
\* ticks of the clock in a day
DayLen == 2

\* last tick of the clock
MaxClock == 3

\* records the violations collection holds at most
MaxViolations == 2

\* the $limit of the blocked-uri aggregation
UriLimit == 10

\* the days parameter when the query has none
DefaultDays == 7

\* values of Number(days)
DaysInputs == { -1, 0, 1, DefaultDays }

\* Match without the $gte bound of the window
MatchUpToEnd(collection, uniqueId, startDate, endDate) ==
    { i \in 1..Len(collection) :
        /\ collection[i].customerId = uniqueId
        /\ collection[i].timestamp <= endDate }

\* $match: { customerId, timestamp: { $gte: startDate, $lte: endDate } }
Match(collection, uniqueId, startDate, endDate) ==
    { i \in 1..Len(collection) :
        /\ collection[i].customerId = uniqueId
        /\ collection[i].timestamp >= startDate
        /\ collection[i].timestamp <= endDate }

\* "$reportData.<path>": the value at the path, null when the record has none
PathValue(violation, path) ==
    IF path \in DOMAIN violation.reportData
    THEN JStr(violation.reportData[path])
    ELSE JNull

\* $dateToString with format %Y-%m-%d: the day a timestamp falls in
DateToString(timestamp) == timestamp \div DayLen

\* $group: { _id: <key>, count: { $sum: 1 } }, keyOf giving the key of every
\* matched record
GroupCount(keyOf) ==
    { [_id |-> k, count |-> Cardinality({ i \in DOMAIN keyOf : keyOf[i] = k })] :
        k \in { keyOf[i] : i \in DOMAIN keyOf } }

\* the orders in which a set of groups can be listed
Listings(groups) ==
    { q \in [1..Cardinality(groups) -> groups] :
        \A i, j \in DOMAIN q : i # j => q[i] # q[j] }

\* $sort: { count: -1 }; the order of groups with equal counts is not defined
SortByCountDesc(groups) ==
    { q \in Listings(groups) :
        \A i, j \in DOMAIN q : i < j => q[i].count >= q[j].count }

\* $sort: { _id: 1 } on days
SortByDayAsc(groups) ==
    CHOOSE q \in Listings(groups) :
        \A i, j \in DOMAIN q : i < j => q[i]._id < q[j]._id

\* $limit
Limit(q, n) == SubSeq(q, 1, IF Len(q) < n THEN Len(q) ELSE n)

ByDirective(v) == PathValue(v, ViolatedDirective)
ByBlockedUri(v) == PathValue(v, BlockedUri)
ByDay(v) == DateToString(v.timestamp)

RespondStats(s, status, error) ==
    [s EXCEPT !.pc = "done", !.status = status, !.error = error]

\* the catch block: the error is logged and answered 500
StatsFailed(s) == RespondStats(s, 500, "StoreError")

\* the request arrives and the handler calls Customer.findOne
ReceiveStats(uniqueId, days) ==
    /\ stats.pc = "idle"
    /\ stats' = [IdleStats EXCEPT !.pc = "findOne", !.uniqueId = uniqueId, !.days = days]
    /\ UNCHANGED << customers, violations, now, reports >>

\* Customer.findOne settles; the handler reads the clock twice (it may tick in
\* between) and issues the directive aggregation
StatsFindOne(ok, tick) ==
    /\ stats.pc = "findOne"
    /\ IF ok /\ FindCustomer(stats.uniqueId) # ""
       THEN /\ now + tick <= MaxClock
            /\ now' = now + tick
            /\ stats' = [stats EXCEPT !.pc = "directive",
                                      !.endDate = now,
                                      !.startDate = (now + tick) - stats.days * DayLen]
       ELSE /\ tick = 0
            /\ now' = now
            /\ stats' = IF ok THEN RespondStats(stats, 404, "none") ELSE StatsFailed(stats)
    /\ UNCHANGED << customers, violations, reports >>

StatsMatched == Match(violations, stats.uniqueId, stats.startDate, stats.endDate)

\* the directive aggregation settles; the blocked-uri aggregation is issued
StatsDirective(ok) ==
    /\ stats.pc = "directive"
    /\ IF ok
       THEN \E q \in SortByCountDesc(GroupCount([i \in StatsMatched |-> ByDirective(violations[i])])) :
               stats' = [stats EXCEPT !.pc = "uri", !.directiveCounts = q]
       ELSE stats' = StatsFailed(stats)
    /\ UNCHANGED << customers, violations, now, reports >>

\* the blocked-uri aggregation settles; the daily aggregation is issued
StatsUri(ok) ==
    /\ stats.pc = "uri"
    /\ IF ok
       THEN \E q \in SortByCountDesc(GroupCount([i \in StatsMatched |-> ByBlockedUri(violations[i])])) :
               stats' = [stats EXCEPT !.pc = "daily", !.uriCounts = Limit(q, UriLimit)]
       ELSE stats' = StatsFailed(stats)
    /\ UNCHANGED << customers, violations, now, reports >>

\* the daily aggregation settles; countDocuments is issued
StatsDaily(ok) ==
    /\ stats.pc = "daily"
    /\ stats' = IF ok
                THEN [stats EXCEPT !.pc = "count",
                         !.dailyCounts =
                             SortByDayAsc(GroupCount([i \in StatsMatched |-> ByDay(violations[i])]))]
                ELSE StatsFailed(stats)
    /\ UNCHANGED << customers, violations, now, reports >>

\* countDocuments settles and the handler answers
StatsCount(ok) ==
    /\ stats.pc = "count"
    /\ stats' = IF ok
                THEN [RespondStats(stats, 200, "none") EXCEPT
                         !.totalViolations = Cardinality(StatsMatched)]
                ELSE StatsFailed(stats)
    /\ UNCHANGED << customers, violations, now, reports >>

\* a millisecond passes
Tick ==
    /\ now < MaxClock
    /\ now' = now + 1
    /\ UNCHANGED << customers, violations, reports, stats >>

(***************************************************************************)
(* Concurrent specification: report requests, a statistics request and     *)
(* registrations interleaved at their awaits                               *)
(***************************************************************************)
\* report requests that may still write a record
Pending == { i \in Slots : reports[i].pc \in { "findOne", "save" } }

Next ==
    \/ \E name \in { "", "Shop" }, uniqueId \in Ids, ok \in BOOLEAN :
          CreateCustomer(name, uniqueId, ok)
    \/ /\ Len(violations) + Cardinality(Pending) < MaxViolations
       /\ \E i \in Slots, uniqueId \in Ids, data \in RaceData :
             ReceiveReport(i, uniqueId, CspReport, data)
    \/ \E i \in Slots, ok \in BOOLEAN : ReportFindOne(i, ok)
    \/ \E i \in Slots, ok \in BOOLEAN : ReportSave(i, ok)
    \/ \E uniqueId \in Ids, days \in DaysInputs : ReceiveStats(uniqueId, days)
    \/ \E ok \in BOOLEAN, tick \in { 0, 1 } : StatsFindOne(ok, tick)
    \/ \E ok \in BOOLEAN : StatsDirective(ok)
    \/ \E ok \in BOOLEAN : StatsUri(ok)
    \/ \E ok \in BOOLEAN : StatsDaily(ok)
    \/ \E ok \in BOOLEAN : StatsCount(ok)
    \/ Tick

Spec == Init /\ [][Next]_vars

(***************************************************************************)
(* Properties                                                              *)
(***************************************************************************)
KnownFields == { DocumentUri, ViolatedDirective, BlockedUri }

\* report requests that have been answered
Answered == { i \in Slots : reports[i].pc = "done" }

\* report requests whose extraction produced a report
Extracted == { i \in Slots : reports[i].pc \in { "save", "done" }
                              /\ reports[i].reportData # Undefined }

\* report requests that reached the extraction: the tenant was found
ReachedExtraction ==
    { i \in Slots : i \in Extracted \/ (reports[i].pc = "done" /\ reports[i].error = "TypeError") }

RECURSIVE SumCounts(_)
SumCounts(q) == IF Len(q) = 0 THEN 0 ELSE Head(q).count + SumCounts(Tail(q))

\* C1: a report request that reaches the handler for an existing tenant while
\* the store is available is answered 204, whatever its body, never 500.
C1_MalformedBodyAccepted ==
    \A i \in Answered :
        (reports[i].status \notin { 400, 404 } /\ reports[i].error # "StoreError")
            => reports[i].status = 204

\* C2: when the raw body failed JSON parsing, the stored report carries the
\* "Unknown (Parsing Error)" sentinel, not the "Empty or Invalid Format" one.
C2_ParseFailureSentinel ==
    \A i \in Answered :
        (reports[i].parseFailed /\ reports[i].status = 204)
            => LET stored == reports[i].violation.reportData
               IN  /\ DocumentUri \in DOMAIN stored
                   /\ stored[DocumentUri] = "Unknown (Parsing Error)"

\* C3: every stored violation record has a value for each of document-uri,
\* violated-directive and blocked-uri.
C3_KnownFieldsPresent ==
    \A k \in 1..Len(violations) : KnownFields \subseteq DOMAIN violations[k].reportData

\* C4: every statistics response is consistent: the byDirective counts and the
\* byDay counts each sum to totalViolations, the byUri counts to at most that.
C4_StatisticsConsistent ==
    (stats.pc = "done" /\ stats.status = 200)
        => /\ SumCounts(stats.directiveCounts) = stats.totalViolations
           /\ SumCounts(stats.dailyCounts) = stats.totalViolations
           /\ SumCounts(stats.uriCounts) <= stats.totalViolations

\* the report requests a step answers with 204
Accepted == { i \in Slots : /\ reports[i].pc # "done"
                            /\ reports'[i].pc = "done"
                            /\ reports'[i].status = 204 }

\* C5: every step leaves the stored records as they were and adds one record
\* for each request it answers 204 (that request's record), none otherwise: a
\* request answered 404 or 500 adds nothing, and nothing is removed or merged.
C5_OneRecordPerAccepted ==
    [][ /\ Len(violations') = Len(violations) + Cardinality(Accepted)
        /\ SubSeq(violations', 1, Len(violations)) = violations
        /\ \A i \in Accepted : violations'[Len(violations')] = reports[i].violation
      ]_vars

\* C5 witness: two accepted submissions of the same report, stamped alike, are
\* two records.
C5_TwoIdenticalRecords ==
    /\ Len(violations) = 2
    /\ violations[1] = violations[2]
    /\ \E i \in Answered : reports[i].status = 204

\* the entries the claim C6 counts as CSP reports, and the report it expects
C6Matches(e) ==
    /\ ~IsNullish(e)
    /\ \/ Get(e, "type") = JStr("csp-violation")
       \/ Truthy(OptGet(Get(e, "body"), "csp-report"))

C6Expected(e) ==
    IF Truthy(OptGet(Get(e, "body"), "csp-report")) THEN OptGet(Get(e, "body"), "csp-report")
    ELSE IF Truthy(Get(e, "body")) THEN Get(e, "body")
    ELSE e

\* C6: for an array body with at least one entry of type "csp-violation" or
\* with a csp-report in its body, the report is taken from the first such
\* entry in array order: its body's csp-report, else its body, else the entry.
C6_FirstMatchingEntry ==
    \A i \in ReachedExtraction :
        LET body == reports[i].body
        IN  (body.t = "arr" /\ \E k \in 1..Len(body.a) : C6Matches(body.a[k]))
                => LET first == CHOOSE k \in 1..Len(body.a) :
                                    /\ C6Matches(body.a[k])
                                    /\ \A j \in 1..(k - 1) : ~C6Matches(body.a[j])
                   IN  reports[i].reportData = C6Expected(body.a[first])

WrapperFields == { "csp-report", "report", "content-security-policy-report" }

IsEmptyOrInvalid(reportData) ==
    /\ reportData.t = "obj"
    /\ DocumentUri \in DOMAIN reportData.f
    /\ reportData.f[DocumentUri] = JStr("Unknown (Empty or Invalid Format)")

\* C7 as stated: for a body that is not an array, a body that contains a
\* csp-report field has that field's value as its report, and the "Empty or
\* Invalid Format" sentinel is produced only for a body that contains none of
\* the three wrapper fields.
C7_WrapperFieldContained ==
    \A i \in Extracted :
        LET body == reports[i].body
        IN  body.t = "obj"
                => /\ "csp-report" \in DOMAIN body.f
                        => reports[i].reportData = body.f["csp-report"]
                   /\ IsEmptyOrInvalid(reports[i].reportData)
                        => WrapperFields \cap DOMAIN body.f = {}

\* C7 amended: for a body that is not an array, the report is the value of the
\* first of csp-report, report, content-security-policy-report that is truthy
\* (so a truthy csp-report wins whatever else the body holds), and the "Empty
\* or Invalid Format" sentinel is produced only when none of the three is.
C7_WrapperPrecedence ==
    \A i \in Extracted :
        LET body == reports[i].body
            a == Get(body, "csp-report")
            b == Get(body, "report")
            c == Get(body, "content-security-policy-report")
            reportData == reports[i].reportData
        IN  body.t # "arr"
                => /\ Truthy(a) => reportData = a
                   /\ (~Truthy(a) /\ Truthy(b)) => reportData = b
                   /\ (~Truthy(a) /\ ~Truthy(b) /\ Truthy(c)) => reportData = c
                   /\ IsEmptyOrInvalid(reportData)
                        => (~Truthy(a) /\ ~Truthy(b) /\ ~Truthy(c))

\* C7 witness: an accepted body with all three wrapper fields truthy and both
\* top-level report keys, whose report is the csp-report value.
C7_AllWrappersPresent ==
    \E i \in Answered :
        LET body == reports[i].body
        IN  /\ reports[i].status = 204
            /\ body.t = "obj"
            /\ \A k \in WrapperFields : Truthy(Get(body, k))
            /\ Truthy(Get(body, DocumentUri)) /\ Truthy(Get(body, ViolatedDirective))
            /\ reports[i].reportData = Get(body, "csp-report")

\* C8: after a parse failure the report's original-report is the first
\* RawKeep characters of the raw body followed by "...", and nothing else.
C8_OriginalReportTruncated ==
    \A i \in Extracted :
        reports[i].parseFailed
            => LET reportData == reports[i].reportData
               IN  /\ reportData.t = "obj"
                   /\ "original-report" \in DOMAIN reportData.f
                   /\ reportData.f["original-report"]
                        = JStr(substring0(reports[i].data, RawKeep) \o "...")

StatsEmpty ==
    /\ stats.totalViolations = 0
    /\ stats.directiveCounts = <<>>
    /\ stats.uriCounts = <<>>
    /\ stats.dailyCounts = <<>>

\* C9 as stated: a statistics response for a non-positive days value has zero
\* counts, whatever is stored.
C9_NonPositiveDaysEmpty ==
    (stats.pc = "done" /\ stats.status = 200 /\ stats.days <= 0) => StatsEmpty

\* the tenant's records stamped at the instant the request read the clock
StampedAtRequest ==
    { k \in 1..Len(violations) : /\ violations[k].customerId = stats.uniqueId
                                 /\ violations[k].timestamp = stats.endDate }

\* C9 amended: a statistics request with a non-positive days value fails only
\* when a store call fails; answered, a negative days value gives zero counts
\* whatever is stored, and days = 0 counts nothing but records stamped exactly
\* at the instant of the request.
C9_NonPositiveWindow ==
    (stats.pc = "done" /\ stats.days <= 0)
        => /\ stats.status \in { 200, 404, 500 }
           /\ stats.status = 500 => stats.error = "StoreError"
           /\ (stats.status = 200 /\ stats.days < 0) => StatsEmpty
           /\ (stats.status = 200 /\ stats.days = 0)
                => /\ stats.totalViolations <= Cardinality(StampedAtRequest)
                   /\ SumCounts(stats.directiveCounts) <= Cardinality(StampedAtRequest)
                   /\ SumCounts(stats.uriCounts) <= Cardinality(StampedAtRequest)
                   /\ SumCounts(stats.dailyCounts) <= Cardinality(StampedAtRequest)

\* C9 witness: a negative days value answered with zero counts although the
\* tenant has a record stamped at the instant of the request.
C9_NegativeDaysOverRecords ==
    /\ stats.pc = "done" /\ stats.status = 200 /\ stats.days < 0
    /\ StampedAtRequest # {}
    /\ StatsEmpty

\* C10: every stored record's customerId is the uniqueId of a registered
\* customer (customers are never removed, so of one registered at the write).
C10_RecordsOfRegisteredCustomers ==
    \A k \in 1..Len(violations) : violations[k].customerId \in customers

\* C10 witness: a record written for one customer while the other uniqueId is
\* not registered, and a request for that other uniqueId answered 404.
C10_RecordAndUnknownTenant ==
    /\ Len(violations) >= 1
    /\ \E i \in Answered : reports[i].status = 404 /\ reports[i].uniqueId \notin customers
====
